---- MODULE Spec2Model ----
(***************************************************************************)
(* Model of steamlit_app.py: the classifier glue (classify_input), the     *)
(* AlphaVantage client (get_ticker_symbol, get_stock_price,                *)
(* get_daily_stock_price) and the Streamlit script body that keeps the     *)
(* chat history in st.session_state.messages.                              *)
(*                                                                         *)
(* Text is a sequence of atoms.  An atom is an indivisible piece of text   *)
(* ("ticker", ":", " ", "aapl", a whole fixed phrase); the atoms are       *)
(* chosen so that no atom occurs inside a concatenation of other atoms,    *)
(* hence Python's substring test, split, strip, lower and upper are the    *)
(* corresponding operations on atom sequences.                             *)
(*                                                                         *)
(* A Python/JSON value is a tagged record [t, v]: t is the type, v the     *)
(* payload (text for str, a function from keys to values for dict, a       *)
(* sequence for list).  A call returns [exc, val, calls]: the exception    *)
(* that left the function ("none" for a normal return), the value          *)
(* returned, and the HTTP requests it issued, in order.                    *)
(***************************************************************************)
EXTENDS Integers, Sequences, FiniteSets, TLC

VARIABLES
    messages,    \* st.session_state.messages
    transcript,  \* the st.markdown lines of the latest script run
    run,         \* what the latest script run did
    submissions, \* the number of script runs that handled a submission
    probe        \* a direct call of one of the functions, and its result

vars == <<messages, transcript, run, submissions, probe>>

-----------------------------------------------------------------------------
(* Python values *)

Str(text) == [t |-> "str", v |-> text]
Dict(f) == [t |-> "dict", v |-> f]
List(s) == [t |-> "list", v |-> s]
PyNone == [t |-> "null", v |-> <<>>]
NotJson == [t |-> "notjson", v |-> <<>>]

Return(x, cs) == [exc |-> "none", val |-> x, calls |-> cs]
Raise(e, cs) == [exc |-> e, val |-> PyNone, calls |-> cs]

\* bool(x)
Truthy(x) == x.t \in {"str", "dict", "list"} /\ x.v # <<>>

\* obj[key]
GetItem(obj, key) ==
    IF obj.t = "dict"
    THEN IF key.t \notin {"str", "null"}
         THEN Raise("TypeError", <<>>)
         ELSE IF key.t = "str" /\ Len(key.v) = 1 /\ key.v[1] \in DOMAIN obj.v
              THEN Return(obj.v[key.v[1]], <<>>)
              ELSE Raise("KeyError", <<>>)
    ELSE Raise("TypeError", <<>>)

\* str.upper() and str.lower(), atom by atom
UpperAtom(a) ==
    CASE a = "aapl" -> "AAPL"
      [] a = "Aapl" -> "AAPL"
      [] a = "ticker" -> "TICKER"
      [] a = "Ticker" -> "TICKER"
      [] a = "company" -> "COMPANY"
      [] a = "Company" -> "COMPANY"
      [] a = "apple inc" -> "APPLE INC"
      [] a = "apc.frk" -> "APC.FRK"
      [] OTHER -> a

LowerAtom(a) ==
    CASE a = "AAPL" -> "aapl"
      [] a = "Aapl" -> "aapl"
      [] a = "Ticker" -> "ticker"
      [] a = "TICKER" -> "ticker"
      [] a = "COMPANY" -> "company"
      [] a = "Company" -> "company"
      [] a = "Apple Inc" -> "apple inc"
      [] a = "APC.FRK" -> "apc.frk"
      [] OTHER -> a

Upper(text) == [i \in 1..Len(text) |-> UpperAtom(text[i])]
Lower(text) == [i \in 1..Len(text) |-> LowerAtom(text[i])]

\* the {x} of an f-string
Format(x) ==
    CASE x.t = "str" -> x.v
      [] x.t = "null" -> <<"None">>
      [] x.t = "list" -> <<"[]">>
      [] OTHER -> <<"{...}">>

\* x.upper()
UpperOf(x) == IF x.t = "str" THEN Return(Str(Upper(x.v)), <<>>) ELSE Raise("AttributeError", <<>>)

-----------------------------------------------------------------------------
(* The market-data API: one response per query function *)

Response(status, body) == [status_code |-> status, body |-> body]

\* response.json()
Json(response) ==
    IF response.body.t = "notjson" THEN Raise("JSONDecodeError", <<>>) ELSE Return(response.body, <<>>)

Request(function, symbol, response) == [function |-> function, symbol |-> symbol, response |-> response]

\* the try block shared by lines 99-101 and 129-131: Meta Data, Last Refreshed,
\* the time series, its entry at Last Refreshed, the entry's open price, ticker.upper()
Extract(data, seriesKey, ticker) ==
    LET meta == GetItem(data, Str(<<"Meta Data">>))
        last_refreshed == GetItem(meta.val, Str(<<"3. Last Refreshed">>))
        series == GetItem(data, Str(<<seriesKey>>))
        entry == GetItem(series.val, last_refreshed.val)
        stock_price == GetItem(entry.val, Str(<<"1. open">>))
        up == UpperOf(ticker)
    IN  IF meta.exc # "none" THEN meta
        ELSE IF last_refreshed.exc # "none" THEN last_refreshed
        ELSE IF series.exc # "none" THEN series
        ELSE IF entry.exc # "none" THEN entry
        ELSE IF stock_price.exc # "none" THEN stock_price
        ELSE IF up.exc # "none" THEN up
        ELSE Return([ticker |-> up.val.v, stock_price |-> Format(stock_price.val),
                     last_refreshed |-> Format(last_refreshed.val)], <<>>)

DailySentence(q) ==
    <<"Real-time price data is unavailable. The most recent daily stock price for ">>
        \o q.ticker \o <<" is $">> \o q.stock_price \o <<" (date: ">> \o q.last_refreshed \o <<").">>

RealTimeSentence(q) ==
    <<"The current real-time stock price for ">>
        \o q.ticker \o <<" is $">> \o q.stock_price \o <<" (last refreshed: ">> \o q.last_refreshed \o <<").">>

CouldNotRetrieve == <<"Could not retrieve daily stock price. Please check the ticker symbol and try again.">>
FailedToFetch == <<"Failed to fetch data from AlphaVantage API.">>
NoMatches == <<"No matches found for the company name.">>

get_daily_stock_price(ticker, api) ==
    LET daily_response == api["TIME_SERIES_DAILY"]
        cs == <<Request("TIME_SERIES_DAILY", ticker, daily_response)>>
        daily_data == Json(daily_response)
        q == Extract(daily_data.val, "Time Series (Daily)", ticker)
    IN  IF daily_response.status_code = 200
        THEN IF daily_data.exc # "none" THEN Raise(daily_data.exc, cs)
             ELSE IF q.exc = "none" THEN Return(Str(DailySentence(q.val)), cs)
             ELSE IF q.exc = "KeyError" THEN Return(Str(CouldNotRetrieve), cs)
             ELSE Raise(q.exc, cs)
        ELSE Return(Str(FailedToFetch), cs)

get_stock_price(ticker, api) ==
    LET intraday_response == api["TIME_SERIES_INTRADAY"]
        cs == <<Request("TIME_SERIES_INTRADAY", ticker, intraday_response)>>
        intraday_data == Json(intraday_response)
        q == Extract(intraday_data.val, "Time Series (1min)", ticker)
        daily == get_daily_stock_price(ticker, api)
        fallback == [daily EXCEPT !.calls = cs \o daily.calls]
    IN  IF intraday_response.status_code = 200
        THEN IF intraday_data.exc # "none" THEN Raise(intraday_data.exc, cs)
             ELSE IF q.exc = "none" THEN Return(Str(RealTimeSentence(q.val)), cs)
             ELSE IF q.exc = "KeyError" THEN fallback
             ELSE Raise(q.exc, cs)
        ELSE fallback

-----------------------------------------------------------------------------
(* str.strip(), the substring test and str.split(sep) *)

Whitespace == {" ", "\n"}

Strip(text) ==
    LET keep == { i \in 1..Len(text) : text[i] \notin Whitespace }
        first == CHOOSE i \in keep : \A j \in keep : i <= j
        last == CHOOSE i \in keep : \A j \in keep : j <= i
    IN  IF keep = {} THEN <<>> ELSE SubSeq(text, first, last)

\* the least index at which sub occurs in text, 0 when it does not occur
Find(text, sub) ==
    LET at == { i \in 1..(Len(text) - Len(sub) + 1) : SubSeq(text, i, i + Len(sub) - 1) = sub }
    IN  IF at = {} THEN 0 ELSE CHOOSE i \in at : \A j \in at : i <= j

Contains(text, sub) == Find(text, sub) # 0

RECURSIVE Split(_, _)
Split(text, sep) ==
    LET i == Find(text, sep)
    IN  IF i = 0 THEN <<text>>
        ELSE <<SubSeq(text, 1, i - 1)>> \o Split(SubSeq(text, i + Len(sep), Len(text)), sep)

\* seq[1] of a Python list (0-based)
Second(parts) ==
    IF Len(parts) >= 2 THEN Return(Str(parts[2]), <<>>) ELSE Raise("IndexError", <<>>)

\* input_text is the user's text, reply the message content of the completion
classify_input(input_text, reply) ==
    LET content == Lower(Strip(reply))
        tvalue == Second(Split(content, <<"ticker", ":">>))
        cvalue == Second(Split(content, <<"company", ":">>))
    IN  IF Contains(content, <<"ticker">>)
        THEN IF tvalue.exc # "none" THEN tvalue
             ELSE Return(<<"ticker", Str(Strip(tvalue.val.v))>>, <<>>)
        ELSE IF Contains(content, <<"company">>)
        THEN IF cvalue.exc # "none" THEN cvalue
             ELSE Return(<<"company", Str(Strip(cvalue.val.v))>>, <<>>)
        ELSE Return(<<"unknown", input_text>>, <<>>)

-----------------------------------------------------------------------------
(* get_ticker_symbol *)

RECURSIVE preferred_match_region_only(_, _)
preferred_match_region_only(matches, i) ==
    IF i > Len(matches) THEN Return(PyNone, <<>>)
    ELSE LET region == GetItem(matches[i], Str(<<"4. region">>))
         IN  IF region.exc # "none" THEN region
             ELSE IF region.val # Str(<<"United States">>)
             THEN preferred_match_region_only(matches, i + 1)
             ELSE Return(matches[i], <<>>)

\* the for loop of lines 60-63 from position i on: the first match whose region is
\* "United States" and whose currency is "USD", None when the loop ends without one
RECURSIVE preferred_match(_, _)
preferred_match(matches, i) ==
    IF i > Len(matches) THEN Return(PyNone, <<>>)
    ELSE LET match == matches[i]
             region == GetItem(match, Str(<<"4. region">>))
             currency == GetItem(match, Str(<<"8. currency">>))
         IN  IF region.exc # "none" THEN region
             ELSE IF region.val # Str(<<"United States">>) THEN preferred_match(matches, i + 1)
             ELSE IF currency.exc # "none" THEN currency
             ELSE IF currency.val # Str(<<"USD">>) THEN preferred_match(matches, i + 1)
             ELSE Return(match, <<>>)

\* (match["1. symbol"], match["2. name"])
SymbolAndName(match, cs) ==
    LET symbol == GetItem(match, Str(<<"1. symbol">>))
        name == GetItem(match, Str(<<"2. name">>))
    IN  IF symbol.exc # "none" THEN Raise(symbol.exc, cs)
        ELSE IF name.exc # "none" THEN Raise(name.exc, cs)
        ELSE Return(<<symbol.val, name.val>>, cs)

\* matches[0]
First(list) ==
    IF list.v = <<>> THEN Raise("IndexError", <<>>) ELSE Return(list.v[1], <<>>)

has_matches_key_only(data) ==
    data.t = "dict" /\ "bestMatches" \in DOMAIN data.v

\* line 55: "bestMatches" in data and data["bestMatches"]
has_matches(data) ==
    data.t = "dict" /\ "bestMatches" \in DOMAIN data.v /\ Truthy(data.v["bestMatches"])

get_ticker_symbol(company_name, api) ==
    LET response == api["SYMBOL_SEARCH"]
        cs == <<Request("SYMBOL_SEARCH", company_name, response)>>
        data == Json(response)
        matches == data.val.v["bestMatches"]
        preferred == preferred_match(matches.v, 1)
        top_match == First(matches)
    IN  IF response.status_code = 200
        THEN IF data.exc # "none" THEN Raise(data.exc, cs)
             ELSE IF has_matches(data.val)
                  THEN IF matches.t # "list" THEN Raise("TypeError", cs)
                       ELSE IF preferred.exc # "none" THEN Raise(preferred.exc, cs)
                       ELSE IF Truthy(preferred.val) THEN SymbolAndName(preferred.val, cs)
                       ELSE IF top_match.exc # "none" THEN Raise(top_match.exc, cs)
                       ELSE SymbolAndName(top_match.val, cs)
                  ELSE Return(<<PyNone, Str(NoMatches)>>, cs)
        ELSE Return(<<PyNone, Str(FailedToFetch)>>, cs)

-----------------------------------------------------------------------------
(* Response bodies of the two price queries *)

Timestamps == {"2024-01-01 09:31:00", "2024-01-01"}

EntryValues ==
    { Dict([k \in {"1. open"} |-> Str(<<"150.25">>)]),
      Dict([k \in {"2. high"} |-> Str(<<"151.00">>)]),
      Str(<<"n/a">>) }

SeriesValues ==
    { Dict(f) : f \in UNION { [S -> EntryValues] : S \in SUBSET Timestamps } }
        \cup { Str(<<"n/a">>) }

MetaValues ==
    { Dict([k \in {"3. Last Refreshed"} |-> lr]) :
          lr \in { Str(<<ts>>) : ts \in Timestamps } \cup { PyNone, List(<<>>) } }
        \cup { Dict([k \in {"1. Information"} |-> Str(<<"n/a">>)]), Str(<<"n/a">>), PyNone }

PriceDicts(seriesKey) ==
    { Dict([k \in {"Meta Data", seriesKey} |-> IF k = "Meta Data" THEN m ELSE s]) :
          m \in MetaValues, s \in SeriesValues }
        \cup { Dict([k \in {"Meta Data"} |-> m]) : m \in MetaValues }
        \cup { Dict([k \in {seriesKey} |-> s]) : s \in SeriesValues }
        \cup { Dict([k \in {"Note"} |-> Str(<<"n/a">>)]) }

PriceBodies(seriesKey) == PriceDicts(seriesKey) \cup { List(<<>>), NotJson }

ErrorBodies == { NotJson, Dict([k \in {"Error Message"} |-> Str(<<"n/a">>)]) }

PriceResponses(seriesKey) ==
    { Response(200, b) : b \in PriceBodies(seriesKey) }
        \cup { Response(s, b) : s \in {404, 500}, b \in ErrorBodies }

IntradayResponses == PriceResponses("Time Series (1min)")
DailyResponses == PriceResponses("Time Series (Daily)")

Tickers == { Str(<<"aapl">>), Str(<<"AAPL">>) }

-----------------------------------------------------------------------------
(* Response bodies of the symbol search *)

MaxMatches == 3

Listings == { <<"AAPL", "Apple Inc">>, <<"APC.FRK", "Apple Inc.">>, <<"AAPL34.SAO", "Apple Inc DRC">> }

Match(listing, region, currency) ==
    Dict([k \in {"1. symbol", "2. name", "4. region", "8. currency"} |->
            CASE k = "1. symbol" -> Str(<<listing[1]>>)
              [] k = "2. name" -> Str(<<listing[2]>>)
              [] k = "4. region" -> Str(<<region>>)
              [] OTHER -> Str(<<currency>>)])

Candidates ==
    { Match(l, r, c) : l \in Listings, r \in {"United States", "Frankfurt"}, c \in {"USD", "EUR"} }

CandidateLists == UNION { [1..n -> Candidates] : n \in 0..MaxMatches }

SearchBodies ==
    { Dict([k \in {"bestMatches"} |-> List(ms)]) : ms \in CandidateLists }
        \cup { Dict([k \in {"Note"} |-> Str(<<"n/a">>)]), Dict(<<>>) }

SearchResponses ==
    { Response(200, b) : b \in SearchBodies }
        \cup { Response(s, b) : s \in {404, 500}, b \in ErrorBodies }

CompanyNames == { Str(<<"apple inc">>), Str(<<"apple">>) }

-----------------------------------------------------------------------------
(* Completions of the language model *)

MaxLen == 4

ReplyAtoms == {"ticker", "Ticker", "company", ":", " ", "AAPL"}

Replies == UNION { [1..n -> ReplyAtoms] : n \in 0..MaxLen }

UserInputs == { Str(<<"AAPL">>), Str(<<"Apple">>) }

-----------------------------------------------------------------------------
(* The script body, lines 138-177: one run of the script per user interaction *)

NotSure == <<"I'm not sure if this is a company name or a ticker symbol. Please try again.">>

NotCalled == [exc |-> "not called", val |-> PyNone, calls |-> <<>>]

Message(role, content) == [role |-> role, content |-> content]

FoundSentence(symbol, name, stock_price_response) ==
    <<"Found ticker symbol: ">> \o Format(symbol) \o <<" for ">> \o Format(name) \o <<".\n\n">>
        \o Format(stock_price_response)

\* line 157: bot_response is what get_stock_price returned
ticker_branch(direct) ==
    [exc |-> direct.exc, bot_response |-> direct.val, search |-> NotCalled, price |-> direct]

found_branch_unprefixed(search, resolved) ==
    [exc |-> resolved.exc, bot_response |-> resolved.val, search |-> search, price |-> resolved]

\* lines 162-163: the resolved symbol's price, prefixed with the symbol and the name
found_branch(search, resolved) ==
    [exc |-> resolved.exc,
     bot_response |-> IF resolved.exc = "none"
                      THEN Str(FoundSentence(search.val[1], search.val[2], resolved.val))
                      ELSE PyNone,
     search |-> search, price |-> resolved]

\* lines 160-165: symbol, name = get_ticker_symbol(value), then the branch on symbol
company_branch(search, api) ==
    IF search.exc # "none"
    THEN [exc |-> search.exc, bot_response |-> PyNone, search |-> search, price |-> NotCalled]
    ELSE IF Truthy(search.val[1])
    THEN found_branch(search, get_stock_price(search.val[1], api))
    ELSE [exc |-> "none", bot_response |-> search.val[2], search |-> search, price |-> NotCalled]

respond_unknown_echo(classification, value, api) ==
    IF classification = "ticker" THEN ticker_branch(get_stock_price(value, api))
    ELSE IF classification = "company" THEN company_branch(get_ticker_symbol(value, api), api)
    ELSE [exc |-> "none", bot_response |-> value, search |-> NotCalled, price |-> NotCalled]

\* lines 156-167: the response to a classified input.  exc is the exception that
\* ended the branch, "none" when it computed bot_response
respond(classification, value, api) ==
    IF classification = "ticker" THEN ticker_branch(get_stock_price(value, api))
    ELSE IF classification = "company" THEN company_branch(get_ticker_symbol(value, api), api)
    ELSE [exc |-> "none", bot_response |-> Str(NotSure), search |-> NotCalled, price |-> NotCalled]

\* line 170: the assistant message is appended when the branch computed a response
append_response(appended, cls, r) ==
    IF r.exc # "none"
    THEN [messages |-> appended, exc |-> r.exc, cls |-> cls, search |-> r.search, price |-> r.price]
    ELSE [messages |-> Append(appended, Message("assistant", r.bot_response)),
          exc |-> "none", cls |-> cls, search |-> r.search, price |-> r.price]

\* lines 154-170: what follows the call of classify_input
classified(appended, cls, api) ==
    IF cls.exc # "none"
    THEN [messages |-> appended, exc |-> cls.exc, cls |-> cls,
          search |-> NotCalled, price |-> NotCalled]
    ELSE append_response(appended, cls, respond(cls.val[1], cls.val[2], api))

handle_submit_fresh_list(history, user_input, reply, api) ==
    classified(<<Message("user", user_input)>>, classify_input(user_input, reply), api)

\* lines 149-170: the history after the submit block, and what the block did
handle_submit(history, user_input, reply, api) ==
    classified(Append(history, Message("user", user_input)),
               classify_input(user_input, reply), api)

\* lines 173-177: the st.markdown calls of the display loop
RECURSIVE render(_)
render(history) ==
    IF history = <<>> THEN <<>>
    ELSE LET msg == Head(history)
         IN  (IF msg.role = "user" THEN << <<"**You:** ">> \o Format(msg.content) >>
              ELSE IF msg.role = "assistant" THEN << <<"**Bot:** ">> \o Format(msg.content) >>
              ELSE <<>>)
             \o render(Tail(history))

\* a run that handled a submission: the display loop runs unless an exception
\* ended the run before it
submitted(h, user_input, reply) ==
    [messages |-> h.messages,
     transcript |-> IF h.exc = "none" THEN render(h.messages) ELSE <<>>,
     run |-> [kind |-> "submit", user_input |-> user_input, reply |-> reply,
              exc |-> h.exc, cls |-> h.cls, search |-> h.search, price |-> h.price]]

\* one run of the script: the submit block when the form was submitted with text,
\* then the display loop
script_run(history, submit_button, user_input, reply, api) ==
    IF submit_button /\ Truthy(user_input)
    THEN submitted(handle_submit(history, user_input, reply, api), user_input, reply)
    ELSE [messages |-> history, transcript |-> render(history), run |-> [kind |-> "rerun"]]

-----------------------------------------------------------------------------
(* The interactions of a session *)

MaxSubmissions == 2

OneKey(k, x) == Dict([kk \in {k} |-> x])

WellFormedBody(seriesKey, ts, price) ==
    Dict([k \in {"Meta Data", seriesKey} |->
            IF k = "Meta Data" THEN OneKey("3. Last Refreshed", Str(<<ts>>))
            ELSE OneKey(ts, OneKey("1. open", Str(<<price>>)))])

RateLimitBody == OneKey("Note", Str(<<"n/a">>))
MisshapenBody == OneKey("Meta Data", Str(<<"n/a">>))

SessionReplies ==
    { <<"Ticker", ":", " ", "AAPL">>,
      <<"Company", ":", " ", "Apple Inc">>,
      <<"ticker", " ", "AAPL">>,
      <<"n/a">> }

SessionSearches ==
    { Response(200, OneKey("bestMatches",
                           List(<<Match(<<"APC.FRK", "Apple Inc.">>, "Frankfurt", "EUR"),
                                  Match(<<"AAPL", "Apple Inc">>, "United States", "USD")>>))),
      Response(200, OneKey("bestMatches", List(<<>>))),
      Response(404, NotJson) }

SessionIntraday ==
    { Response(200, WellFormedBody("Time Series (1min)", "2024-01-01 09:31:00", "150.25")),
      Response(200, RateLimitBody),
      Response(200, MisshapenBody) }

SessionDaily ==
    { Response(200, WellFormedBody("Time Series (Daily)", "2024-01-01", "148.00")),
      Response(200, RateLimitBody),
      Response(200, MisshapenBody),
      Response(500, NotJson) }

SessionApis ==
    { [f \in {"SYMBOL_SEARCH", "TIME_SERIES_INTRADAY", "TIME_SERIES_DAILY"} |->
          CASE f = "SYMBOL_SEARCH" -> sr
            [] f = "TIME_SERIES_INTRADAY" -> ir
            [] OTHER -> dr] :
      sr \in SessionSearches, ir \in SessionIntraday, dr \in SessionDaily }

\* a run that handles no submission asks nothing of the model or the API
NoReply == <<>>
NoApi == <<>>

Apply(out) ==
    /\ messages' = out.messages
    /\ transcript' = out.transcript
    /\ run' = out.run
    /\ UNCHANGED probe

\* the form is submitted with text in the field
Submit ==
    /\ submissions < MaxSubmissions
    /\ \E user_input \in UserInputs, reply \in SessionReplies, api \in SessionApis :
        Apply(script_run(messages, TRUE, user_input, reply, api))
    /\ submissions' = submissions + 1

\* the script runs without a submission: the button was not pressed, or the field is empty
Rerun ==
    /\ \E submit_button \in BOOLEAN, user_input \in UserInputs \cup {Str(<<>>)} :
        /\ ~(submit_button /\ Truthy(user_input))
        /\ Apply(script_run(messages, submit_button, user_input, NoReply, NoApi))
    /\ UNCHANGED submissions

-----------------------------------------------------------------------------
(* Direct calls of the three functions *)

NoProbe == [fn |-> "none"]
NoRun == [kind |-> "none"]

ProbeGetStockPrice ==
    /\ probe = NoProbe
    /\ \E ticker \in Tickers, ir \in IntradayResponses, dr \in DailyResponses :
        LET api == [f \in {"TIME_SERIES_INTRADAY", "TIME_SERIES_DAILY"} |->
                        IF f = "TIME_SERIES_INTRADAY" THEN ir ELSE dr]
        IN  probe' = [fn |-> "get_stock_price", ticker |-> ticker,
                      result |-> get_stock_price(ticker, api)]
    /\ UNCHANGED <<messages, transcript, run, submissions>>

ProbeGetTickerSymbol ==
    /\ probe = NoProbe
    /\ \E company_name \in CompanyNames, sr \in SearchResponses :
        LET api == [f \in {"SYMBOL_SEARCH"} |-> sr]
        IN  probe' = [fn |-> "get_ticker_symbol", company_name |-> company_name,
                      result |-> get_ticker_symbol(company_name, api)]
    /\ UNCHANGED <<messages, transcript, run, submissions>>

ProbeClassifyInput ==
    /\ probe = NoProbe
    /\ \E input_text \in UserInputs, reply \in Replies :
        probe' = [fn |-> "classify_input", input_text |-> input_text, reply |-> reply,
                  result |-> classify_input(input_text, reply)]
    /\ UNCHANGED <<messages, transcript, run, submissions>>

InitIdle ==
    /\ messages = <<>>
    /\ transcript = <<>>
    /\ run = NoRun
    /\ submissions = 0
    /\ probe = NoProbe

Init == InitIdle
Next == Submit \/ Rerun
Spec == Init /\ [][Next]_vars

NextPrice == ProbeGetStockPrice
SpecPrice == InitIdle /\ [][NextPrice]_vars

NextSearch == ProbeGetTickerSymbol
SpecSearch == InitIdle /\ [][NextSearch]_vars

NextClassify == ProbeClassifyInput
SpecClassify == InitIdle /\ [][NextClassify]_vars

-----------------------------------------------------------------------------
(* get_stock_price and get_daily_stock_price *)

Calls == probe.result.calls

\* the body holds every field of a quote: "Meta Data" with "3. Last Refreshed", and
\* under seriesKey an entry for that timestamp with "1. open"
HasQuote(body, seriesKey) ==
    /\ body.t = "dict"
    /\ {"Meta Data", seriesKey} \subseteq DOMAIN body.v
    /\ body.v["Meta Data"].t = "dict"
    /\ "3. Last Refreshed" \in DOMAIN body.v["Meta Data"].v
    /\ body.v["Meta Data"].v["3. Last Refreshed"].t = "str"
    /\ Len(body.v["Meta Data"].v["3. Last Refreshed"].v) = 1
    /\ body.v[seriesKey].t = "dict"
    /\ body.v["Meta Data"].v["3. Last Refreshed"].v[1] \in DOMAIN body.v[seriesKey].v
    /\ body.v[seriesKey].v[body.v["Meta Data"].v["3. Last Refreshed"].v[1]].t = "dict"
    /\ "1. open" \in DOMAIN body.v[seriesKey].v[body.v["Meta Data"].v["3. Last Refreshed"].v[1]].v

QuoteTime(body) == body.v["Meta Data"].v["3. Last Refreshed"].v[1]
QuoteOpen(body, seriesKey) == body.v[seriesKey].v[QuoteTime(body)].v["1. open"].v[1]

Succeeded(response, seriesKey) == response.status_code = 200 /\ HasQuote(response.body, seriesKey)

DailyIssued == Len(Calls) >= 2 /\ Calls[2].function = "TIME_SERIES_DAILY"

Returned(text) == probe.result.exc = "none" /\ probe.result.val = Str(text)

\* C1: get_stock_price returns a sentence and never raises, whatever the ticker and
\* whatever status and body the intraday and the daily query answer.
C1_NeverRaises ==
    probe.fn = "get_stock_price" =>
        probe.result.exc = "none" /\ probe.result.val.t = "str" /\ probe.result.val.v # <<>>

\* C2: the intraday query is always the first request; the daily query is issued if
\* and only if the intraday answer has a non-success status or a body missing the
\* expected fields; a well-formed intraday body gives the real-time sentence with the
\* upper-cased ticker, the open price and the timestamp, and no daily request.
C2_DailyIffIntradayFailed ==
    probe.fn = "get_stock_price" =>
        /\ Calls[1].function = "TIME_SERIES_INTRADAY"
        /\ DailyIssued <=> ~Succeeded(Calls[1].response, "Time Series (1min)")
        /\ Succeeded(Calls[1].response, "Time Series (1min)") =>
              /\ Len(Calls) = 1
              /\ Returned(<<"The current real-time stock price for ",
                            UpperAtom(probe.ticker.v[1]), " is $",
                            QuoteOpen(Calls[1].response.body, "Time Series (1min)"),
                            " (last refreshed: ", QuoteTime(Calls[1].response.body), ").">>)

\* C3: when get_stock_price falls through to the daily query, its result is the daily
\* step's outcome: the daily sentence for a well-formed body, "Could not retrieve..."
\* for a success status with fields missing, "Failed to fetch..." for a non-success
\* status; each query is requested once.
C3_DailyOutcomeIsResult ==
    (probe.fn = "get_stock_price" /\ DailyIssued) =>
        /\ Len(Calls) = 2
        /\ Calls[1].function = "TIME_SERIES_INTRADAY"
        /\ IF Calls[2].response.status_code # 200
           THEN Returned(<<"Failed to fetch data from AlphaVantage API.">>)
           ELSE IF HasQuote(Calls[2].response.body, "Time Series (Daily)")
           THEN Returned(<<"Real-time price data is unavailable. The most recent daily stock price for ",
                           UpperAtom(probe.ticker.v[1]), " is $",
                           QuoteOpen(Calls[2].response.body, "Time Series (Daily)"),
                           " (date: ", QuoteTime(Calls[2].response.body), ").">>)
           ELSE Returned(<<"Could not retrieve daily stock price. Please check the ticker symbol and try again.">>)

\* C1-C3 hold of every call that returns: the calls that break them are the ones an
\* uncaught exception ends.
PriceClaimsUnlessRaised ==
    (probe.fn = "get_stock_price" /\ probe.result.exc = "none") =>
        /\ C1_NeverRaises
        /\ C2_DailyIffIntradayFailed
        /\ C3_DailyOutcomeIsResult

\* the only exceptions that leave get_stock_price, and what the response that caused
\* them looks like: a body that is not JSON, or one without a quote
RaisedOnlyOnMalformedBody ==
    (probe.fn = "get_stock_price" /\ probe.result.exc # "none") =>
        /\ probe.result.exc \in {"TypeError", "JSONDecodeError"}
        /\ Calls[Len(Calls)].response.status_code = 200
        /\ ~HasQuote(Calls[Len(Calls)].response.body,
                     IF Len(Calls) = 1 THEN "Time Series (1min)" ELSE "Time Series (Daily)")

-----------------------------------------------------------------------------
(* get_ticker_symbol *)

SearchResponse == Calls[1].response

\* the candidate list of a successful search, <<>> when the body names none
CandidatesOf(response) ==
    IF response.body.t = "dict" /\ "bestMatches" \in DOMAIN response.body.v
    THEN response.body.v["bestMatches"].v
    ELSE <<>>

IsUsUsd(candidate) ==
    /\ candidate.v["4. region"] = Str(<<"United States">>)
    /\ candidate.v["8. currency"] = Str(<<"USD">>)

SymbolNameOf(candidate) == <<candidate.v["1. symbol"], candidate.v["2. name"]>>

\* C4: for a non-empty candidate list of a successful search, the result is the symbol
\* and name of the first candidate, in list order, whose region is "United States" and
\* whose currency is "USD"; when no candidate is both, of the first candidate.
C4_FirstUsUsdElseFirst ==
    (/\ probe.fn = "get_ticker_symbol"
     /\ SearchResponse.status_code = 200
     /\ CandidatesOf(SearchResponse) # <<>>) =>
        LET ms == CandidatesOf(SearchResponse)
            us == { i \in 1..Len(ms) : IsUsUsd(ms[i]) }
            pick == IF us = {} THEN 1 ELSE CHOOSE i \in us : \A j \in us : i <= j
        IN  /\ probe.result.exc = "none"
            /\ probe.result.val = SymbolNameOf(ms[pick])

\* a search whose only US/USD candidate is the last of three, behind candidates of
\* another listing, and is the one returned
C4_Witness ==
    /\ probe.fn = "get_ticker_symbol"
    /\ SearchResponse.status_code = 200
    /\ Len(CandidatesOf(SearchResponse)) = 3
    /\ ~IsUsUsd(CandidatesOf(SearchResponse)[1])
    /\ ~IsUsUsd(CandidatesOf(SearchResponse)[2])
    /\ IsUsUsd(CandidatesOf(SearchResponse)[3])
    /\ CandidatesOf(SearchResponse)[1].v["4. region"] = Str(<<"United States">>)
    /\ CandidatesOf(SearchResponse)[1].v["1. symbol"] = Str(<<"APC.FRK">>)
    /\ probe.result.val = <<Str(<<"AAPL">>), Str(<<"Apple Inc">>)>>

\* C5: a failed search is reported as (None, message): "No matches found for the
\* company name." when the status is a success and the candidate list is absent or
\* empty, "Failed to fetch data from AlphaVantage API." when the status is not a success.
C5_FailureIsNoneAndMessage ==
    probe.fn = "get_ticker_symbol" =>
        /\ SearchResponse.status_code # 200 =>
              /\ probe.result.exc = "none"
              /\ probe.result.val = <<PyNone, Str(<<"Failed to fetch data from AlphaVantage API.">>)>>
        /\ (SearchResponse.status_code = 200 /\ CandidatesOf(SearchResponse) = <<>>) =>
              /\ probe.result.exc = "none"
              /\ probe.result.val = <<PyNone, Str(<<"No matches found for the company name.">>)>>
        /\ (SearchResponse.status_code = 200 /\ CandidatesOf(SearchResponse) # <<>>) =>
              /\ probe.result.exc = "none"
              /\ probe.result.val[1] # PyNone

\* a successful search whose body holds an empty candidate list, answered with
\* (None, "No matches found for the company name.")
C5_Witness ==
    /\ probe.fn = "get_ticker_symbol"
    /\ SearchResponse.status_code = 200
    /\ SearchResponse.body = Dict([k \in {"bestMatches"} |-> List(<<>>)])
    /\ probe.result.val[1] = PyNone
    /\ probe.result.val[2].v = NoMatches

-----------------------------------------------------------------------------
(* classify_input *)

\* the completion, trimmed and lower-cased
Normalised(reply) == Lower(Strip(reply))

\* the kind by priority: "ticker" before "company" before "unknown"
KindOf(reply) ==
    IF Contains(Normalised(reply), <<"ticker">>) THEN "ticker"
    ELSE IF Contains(Normalised(reply), <<"company">>) THEN "company"
    ELSE "unknown"

\* C10: classify_input returns a classification for every completion: kind ticker when
\* the lower-cased, trimmed completion contains "ticker", else kind company when it
\* contains "company", else kind unknown with the unmodified input text as value.
C10_ClassifiesEveryReply ==
    probe.fn = "classify_input" =>
        /\ probe.result.exc = "none"
        /\ probe.result.val[1] = KindOf(probe.reply)
        /\ KindOf(probe.reply) = "unknown" => probe.result.val[2] = probe.input_text

\* the completions classify_input does not survive: the keyword without its "keyword:"
HasKey(reply) ==
    CASE KindOf(reply) = "ticker" -> Contains(Normalised(reply), <<"ticker", ":">>)
      [] KindOf(reply) = "company" -> Contains(Normalised(reply), <<"company", ":">>)
      [] OTHER -> TRUE

\* C10 holds of every completion that has the "keyword:" the split looks for, the value
\* being the trimmed text between the first "keyword:" and the next; the others raise
\* IndexError.
ClassifiesWhenKeyPresent ==
    probe.fn = "classify_input" =>
        IF HasKey(probe.reply)
        THEN /\ C10_ClassifiesEveryReply
             /\ KindOf(probe.reply) # "unknown" =>
                   LET key == <<KindOf(probe.reply), ":">>
                       text == Normalised(probe.reply)
                       rest == SubSeq(text, Find(text, key) + 2, Len(text))
                       stop == Find(rest, key)
                   IN  probe.result.val[2] =
                           Str(Strip(IF stop = 0 THEN rest ELSE SubSeq(rest, 1, stop - 1)))
        ELSE probe.result.exc = "IndexError"

-----------------------------------------------------------------------------
(* The session *)

Last(history) == history[Len(history)]

Submitted == run.kind = "submit"
Classified(kind) == Submitted /\ run.cls.exc = "none" /\ run.cls.val[1] = kind

\* C6: the message list is append-only: every step of a session, a submission or a
\* re-render, leaves the earlier list as a prefix of the later one, and a run that
\* only renders leaves the list as it was.
C6_AppendOnly ==
    [][/\ Len(messages') >= Len(messages)
       /\ SubSeq(messages', 1, Len(messages)) = messages
       /\ run'.kind = "rerun" => messages' = messages]_vars

\* a re-render of a history that two submissions filled, with its four lines shown
C6_Witness ==
    /\ run.kind = "rerun"
    /\ submissions = 2
    /\ Len(messages) = 4
    /\ Len(transcript) = 4

\* C7: every submission appends a user message and then exactly one assistant message,
\* whatever the classifier and the API answer: after n submissions the history holds
\* 2n entries, roles alternating from user, and it never ends in a user message.
C7_UserThenAssistant ==
    /\ Len(messages) = 2 * submissions
    /\ \A i \in 1..Len(messages) :
          messages[i].role = (IF i % 2 = 1 THEN "user" ELSE "assistant")
    /\ submissions > 0 => Last(messages).role = "assistant"

\* C7 holds of every history whose submissions all ran to their end: what breaks it
\* is a run that an exception ends after the user message was appended.
TwoEntriesUnlessRaised ==
    [][(C7_UserThenAssistant /\ run'.kind = "submit" /\ run'.exc = "none") => C7_UserThenAssistant']_vars

C9_UnknownGetsFixedSentence ==
    Classified("unknown") =>
        /\ run.exc = "none"
        /\ run.search = NotCalled
        /\ run.price = NotCalled
        /\ Len(messages) >= 2
        /\ messages[Len(messages) - 1] = [role |-> "user", content |-> run.user_input]
        /\ Last(messages) =
              [role |-> "assistant",
               content |-> Str(<<"I'm not sure if this is a company name or a ticker symbol. Please try again.">>)]

\* the input "Apple", labelled unknown, answered with the fixed sentence
C9_Witness ==
    /\ Classified("unknown")
    /\ run.user_input = Str(<<"Apple">>)
    /\ Last(messages).role = "assistant"
    /\ Last(messages).content.v = NotSure

====
